---- MODULE Spec2Model ----
(***************************************************************************)
(* A model of pyimportparse (src/src/lib.rs): the nom parser that extracts *)
(* the imports of a Python source text.  The text is a sequence of         *)
(* one-character strings; a Span is a cursor into it (0-based offset, the  *)
(* line nom_locate has counted so far, and the exclusive end of the slice  *)
(* the span covers).  Every parser is an operator from (text, span) to a   *)
(* result [ok, s, v]: on success s is the span after what was consumed and *)
(* v the value; on failure ok is FALSE and nothing is consumed.            *)
(***************************************************************************)
EXTENDS Integers, Sequences, FiniteSets, TLC

\* ------------------------------------------------------------ characters

NL == "\n"
CR == "\r"
SP == " "
TAB == "\t"
BSL == "\\"
DQ == "\""
SQ == "'"

Letters ==
  { "a", "b", "c", "d", "e", "f", "g", "h", "i", "j", "k", "l", "m",
    "n", "o", "p", "q", "r", "s", "t", "u", "v", "w", "x", "y", "z",
    "A", "B", "C", "D", "E", "F", "G", "H", "I", "J", "K", "L", "M",
    "N", "O", "P", "Q", "R", "S", "T", "U", "V", "W", "X", "Y", "Z" }

Digits == { "0", "1", "2", "3", "4", "5", "6", "7", "8", "9" }

\* nom::character::complete::alphanumeric1 accepts ASCII letters and digits.
AlnumChars == Letters \cup Digits

\* parse_identifier: many1(alt((alphanumeric1, tag("_")))).
IdentChars == AlnumChars \cup { "_" }

\* nom space0 / space1: spaces and tabs.
SpaceChars == { SP, TAB }

\* nom multispace1: spaces, tabs, carriage returns and line feeds.
MultispaceChars == { SP, TAB, CR, NL }

KwImport == << "i", "m", "p", "o", "r", "t" >>
KwFrom == << "f", "r", "o", "m" >>
KwAs == << "a", "s" >>
KwIf == << "i", "f" >>
KwTypeChecking ==
  << "T", "Y", "P", "E", "_", "C", "H", "E", "C", "K", "I", "N", "G" >>
KwTypingTypeChecking == << "t", "y", "p", "i", "n", "g", "." >> \o KwTypeChecking
TripleDouble == << DQ, DQ, DQ >>
TripleSingle == << SQ, SQ, SQ >>

\* ----------------------------------------------------------------- spans

\* Span::new(s): offset 0, line 1, the whole text.
NewSpan(t) == [off |-> 0, line |-> 1, end |-> Len(t)]

\* IResult: Ok((s, v)) and Err(Error).  A failed parser has consumed
\* nothing, and the span of its result is never read.
Ok(s, v) == [ok |-> TRUE, s |-> s, v |-> v]
Fail == [ok |-> FALSE, s |-> [off |-> 0, line |-> 0, end |-> 0], v |-> << >>]

\* p then K, as `let (s, x) = p.parse(s)?; ...` and the tuple parsers do.
Bind(r, K(_)) == IF r.ok THEN K(r) ELSE Fail

\* alt((p, q)): the result of the first that succeeds.
Alt(r1, r2) == IF r1.ok THEN r1 ELSE r2

\* opt(p) at s: p's result, or nothing consumed.
Opt(r, s) == IF r.ok THEN r ELSE Ok(s, << >>)

CountNL(t, from, to) == Cardinality({ i \in from..to : t[i] = NL })

\* nom_locate: consuming n characters adds the line feeds among them to the
\* span's line.
Advance(t, s, n) ==
  [s EXCEPT !.off = @ + n, !.line = @ + CountNL(t, s.off + 1, s.off + n)]

\* A parser that consumes the n characters at the cursor, and one that needs
\* n > 0 (the ...1 parsers of nom).
Take(t, s, n) == Ok(Advance(t, s, n), << >>)
Take1(t, s, n) == IF n > 0 THEN Ok(Advance(t, s, n), << >>) ELSE Fail

\* tag(w)
Tag(t, s, w) ==
  IF Len(w) <= s.end - s.off /\ SubSeq(t, s.off + 1, s.off + Len(w)) = w
  THEN Ok(Advance(t, s, Len(w)), w)
  ELSE Fail

\* The length of the longest run of characters in S (not in S) at offset off.
RunLen(t, off, end, S) ==
  LET stop == { n \in 0..(end - off) : n = end - off \/ t[off + n + 1] \notin S }
  IN CHOOSE n \in stop : \A m \in stop : n <= m

RunLenNot(t, off, end, S) ==
  LET stop == { n \in 0..(end - off) : n = end - off \/ t[off + n + 1] \in S }
  IN CHOOSE n \in stop : \A m \in stop : n <= m

\* space0, space1, multispace1 of nom.
Space0(t, s) == Take(t, s, RunLen(t, s.off, s.end, SpaceChars))
Space1(t, s) == Take1(t, s, RunLen(t, s.off, s.end, SpaceChars))
Multispace1(t, s) == Take1(t, s, RunLen(t, s.off, s.end, MultispaceChars))

\* line_ending: "\n" or "\r\n".
LineEnding(t, s) == Alt(Tag(t, s, << NL >>), Tag(t, s, << CR, NL >>))

\* opt(line_ending)
OptLineEnding(t, s) == Opt(LineEnding(t, s), s)

\* not_line_ending: everything up to the next "\n" or "\r\n" (or the end of
\* the span); a "\r" that no "\n" follows is an error.
NotLineEnding(t, s) ==
  LET at == s.off + RunLenNot(t, s.off, s.end, { CR, NL })
  IN IF at < s.end /\ t[at + 1] = CR /\ ~(at + 1 < s.end /\ t[at + 2] = NL)
     THEN Fail
     ELSE Take(t, s, at - s.off)

\* take_until(w): everything before the first occurrence of w; an error when
\* w does not occur in the rest of the span.  UntilLen is -1 then.
UntilLen(t, off, end, w) ==
  LET at == { n \in 0..(end - off - Len(w)) :
                SubSeq(t, off + n + 1, off + n + Len(w)) = w }
  IN IF at = { } THEN -1 ELSE CHOOSE n \in at : \A m \in at : n <= m

TakeUntil(t, s, w) ==
  LET n == UntilLen(t, s.off, s.end, w) IN IF n < 0 THEN Fail ELSE Take(t, s, n)

\* A take_split that takes the whole physical line `from` is on, whatever
\* the statement parser consumed of it.
TakeSplitWholeLine(t, from, to) ==
  SubSeq(t, from.off + 1, from.off + RunLenNot(t, from.off, Len(t), { CR, NL }))

\* input.take_split(s.location_offset() - input.location_offset()): the text
\* between the two cursors.
TakeSplit(t, from, to) == SubSeq(t, from.off + 1, to.off)

\* ------------------------------------------------------ lexical parsers

\* recognize(p) for a p that matches n characters (none: p fails): the
\* value is the matched text, kept with the offset it starts at.
Recognize(t, s, n) ==
  IF n > 0
  THEN Ok(Advance(t, s, n),
          [text |-> SubSeq(t, s.off + 1, s.off + n), off |-> s.off])
  ELSE Fail

\* parse_identifier: many1(alt((alphanumeric1, tag("_")))).
IdentLen(t, off, end) == RunLen(t, off, end, IdentChars)
ParseIdentifier(t, s) == Recognize(t, s, IdentLen(t, s.off, s.end))

\* parse_module: separated_list1(tag("."), parse_identifier); a "." that no
\* identifier follows is left unconsumed.  0 when no module starts here.
RECURSIVE ModuleLen(_, _, _)
ModuleLen(t, off, end) ==
  LET n == IdentLen(t, off, end)
  IN IF n = 0 THEN 0
     ELSE IF off + n < end /\ t[off + n + 1] = "."
               /\ IdentLen(t, off + n + 1, end) > 0
          THEN n + 1 + ModuleLen(t, off + n + 1, end)
          ELSE n

ParseModule(t, s) == Recognize(t, s, ModuleLen(t, s.off, s.end))

\* parse_relative_module: any dots and a module, or else one dot or more.
RelativeModuleLen(t, off, end) ==
  LET d == RunLen(t, off, end, { "." })
  IN d + ModuleLen(t, off + d, end)

ParseRelativeModule(t, s) == Recognize(t, s, RelativeModuleLen(t, s.off, s.end))

\* parse_comment: "#" and the rest of the line.
ParseComment(t, s) ==
  Bind(Tag(t, s, << "#" >>), LAMBDA h : NotLineEnding(t, h.s))

\* parse_space0 / parse_space1: many0 / many1 of alt((space1, tag("\\\n"))).
RECURSIVE ContSpaceLen(_, _, _)
ContSpaceLen(t, off, end) ==
  IF off < end /\ t[off + 1] \in SpaceChars
  THEN 1 + ContSpaceLen(t, off + 1, end)
  ELSE IF off + 1 < end /\ t[off + 1] = BSL /\ t[off + 2] = NL
       THEN 2 + ContSpaceLen(t, off + 2, end)
       ELSE 0

ParseSpace0(t, s) == Take(t, s, ContSpaceLen(t, s.off, s.end))
ParseSpace1(t, s) == Take1(t, s, ContSpaceLen(t, s.off, s.end))

\* parse_multispace0_or_comment: many0(alt((multispace1, parse_comment))).
RECURSIVE ParseMultispace0OrComment(_, _)
ParseMultispace0OrComment(t, s) ==
  Alt(Bind(Alt(Multispace1(t, s), ParseComment(t, s)),
           LAMBDA r : ParseMultispace0OrComment(t, r.s)),
      Ok(s, << >>))

\* delimited(tag(q), take_until(q), tag(q))
Delimited3(t, s, q) ==
  Bind(Tag(t, s, q), LAMBDA a :
  Bind(TakeUntil(t, a.s, q), LAMBDA b : Tag(t, b.s, q)))

\* A literal that ends at the first closing triple quote or, if there is
\* none, at the end of the text.
DelimitedOrOpen3(t, s, q) ==
  Bind(Tag(t, s, q), LAMBDA a :
    Alt(Bind(TakeUntil(t, a.s, q), LAMBDA b : Tag(t, b.s, q)),
        Take(t, a.s, a.s.end - a.s.off)))

ParseMultilineCommentOrOpen(t, s) ==
  Alt(DelimitedOrOpen3(t, s, TripleDouble), DelimitedOrOpen3(t, s, TripleSingle))

\* parse_multiline_comment: a triple-quoted literal, up to the first closing
\* triple quote.
ParseMultilineComment(t, s) ==
  Alt(Delimited3(t, s, TripleDouble), Delimited3(t, s, TripleSingle))

\* ---------------------------------------------------- statement parsers

\* Import::new.  offset, name_offset, chain_line and chain_offset are not
\* fields of the Rust struct: they record where `position` and the matched
\* name are, and the line and offset at which the enclosing statement list
\* starts, for the properties below.
Import(object, pos, contents, tc, name_offset) ==
  [imported_object |-> object, line_number |-> pos.line,
   line_contents |-> contents, typechecking_only |-> tc,
   offset |-> pos.off, name_offset |-> name_offset, chain_line |-> 0,
   chain_offset |-> 0]

\* The whitespace around "as" and around ",": parse_space1 and parse_space0,
\* and inside parentheses multispace1 and parse_multispace0_or_comment.
ItemWs1(t, s, multi) == IF multi THEN Multispace1(t, s) ELSE ParseSpace1(t, s)
ItemWs0(t, s, multi) ==
  IF multi THEN ParseMultispace0OrComment(t, s) ELSE ParseSpace0(t, s)

\* (ws1, tag("as"), ws1, parse_identifier)
ParseAlias(t, s, multi) ==
  Bind(ItemWs1(t, s, multi), LAMBDA w1 :
  Bind(Tag(t, w1.s, KwAs), LAMBDA kw :
  Bind(ItemWs1(t, kw.s, multi), LAMBDA w2 : ParseIdentifier(t, w2.s))))

\* terminated(name, opt(alias)): a module (simple import) or an identifier
\* (from-import); the alias is dropped.
ParseItem(t, s, isModule, multi) ==
  Bind(IF isModule THEN ParseModule(t, s) ELSE ParseIdentifier(t, s),
       LAMBDA nm : Ok(Opt(ParseAlias(t, nm.s, multi), nm.s).s, nm.v))

\* delimited(ws0, tag(","), ws0)
ParseItemSep(t, s, multi) ==
  Bind(ItemWs0(t, s, multi), LAMBDA a :
  Bind(Tag(t, a.s, << "," >>), LAMBDA c : ItemWs0(t, c.s, multi)))

\* separated_list1(separator, item): a separator that no item follows is
\* left unconsumed.
RECURSIVE ParseItemsRest(_, _, _, _, _)
ParseItemsRest(t, s, acc, isModule, multi) ==
  Alt(Bind(ParseItemSep(t, s, multi), LAMBDA sep :
      Bind(ParseItem(t, sep.s, isModule, multi), LAMBDA it :
           ParseItemsRest(t, it.s, Append(acc, it.v), isModule, multi))),
      Ok(s, acc))

ParseItems(t, s, isModule, multi) ==
  Bind(ParseItem(t, s, isModule, multi), LAMBDA it :
       ParseItemsRest(t, it.s, << it.v >>, isModule, multi))

\* parse_import_statement
ParseImportStatement(t, s, tc) ==
  Bind(Tag(t, s, KwImport), LAMBDA kw :
  Bind(ParseSpace1(t, kw.s), LAMBDA sp :
  Bind(ParseItems(t, sp.s, TRUE, FALSE), LAMBDA ms :
       Ok(ms.s, [i \in 1..Len(ms.v) |->
                   Import(ms.v[i].text, s, TakeSplit(t, s, ms.s), tc,
                          ms.v[i].off)]))))

\* The head the three from-import parsers share: "from", the relative module
\* and "import", each followed by parse_space1.  The value is the module.
ParseFromHead(t, s) ==
  Bind(Tag(t, s, KwFrom), LAMBDA kw :
  Bind(ParseSpace1(t, kw.s), LAMBDA sp :
  Bind(ParseRelativeModule(t, sp.s), LAMBDA md :
  Bind(ParseSpace1(t, md.s), LAMBDA s2 :
  Bind(Tag(t, s2.s, KwImport), LAMBDA im :
  Bind(ParseSpace1(t, im.s), LAMBDA s3 : Ok(s3.s, md.v)))))))

\* if imported_module_base.ends_with(".") { base + name } else { base + "." + name }
JoinName(base, name) ==
  IF base[Len(base)] = "." THEN base \o name ELSE base \o << "." >> \o name

\* The records of a from-import that starts at s and ends at to.
FromImports(t, s, to, base, names, tc) ==
  [i \in 1..Len(names) |->
    Import(JoinName(base.text, names[i].text), s, TakeSplit(t, s, to), tc,
           names[i].off)]

\* parse_from_import_statement
ParseFromImportStatement(t, s, tc) ==
  Bind(ParseFromHead(t, s), LAMBDA hd :
  Bind(ParseItems(t, hd.s, FALSE, FALSE), LAMBDA ids :
       Ok(ids.s, FromImports(t, s, ids.s, hd.v, ids.v, tc))))

\* A closing sequence that does not insist on the ")".
ParseListCloseLenient(t, s) ==
  Bind(ParseMultispace0OrComment(t, s), LAMBDA w1 :
  Bind(Opt(Tag(t, w1.s, << "," >>), w1.s), LAMBDA cm :
  Bind(ParseMultispace0OrComment(t, cm.s), LAMBDA w2 :
       Opt(Tag(t, w2.s, << ")" >>), w2.s))))

\* (parse_multispace0_or_comment, opt(tag(",")), parse_multispace0_or_comment,
\*  tag(")"))
ParseListClose(t, s) ==
  Bind(ParseMultispace0OrComment(t, s), LAMBDA w1 :
  Bind(Opt(Tag(t, w1.s, << "," >>), w1.s), LAMBDA cm :
  Bind(ParseMultispace0OrComment(t, cm.s), LAMBDA w2 :
       Tag(t, w2.s, << ")" >>))))

\* parse_multiline_from_import_statement
ParseMultilineFromImportStatement(t, s, tc) ==
  Bind(ParseFromHead(t, s), LAMBDA hd :
  Bind(Tag(t, hd.s, << "(" >>), LAMBDA op :
  Bind(ParseMultispace0OrComment(t, op.s), LAMBDA w0 :
  Bind(ParseItems(t, w0.s, FALSE, TRUE), LAMBDA ids :
  Bind(ParseListClose(t, ids.s), LAMBDA cl :
       Ok(cl.s, FromImports(t, s, cl.s, hd.v, ids.v, tc)))))))

\* parse_wildcard_from_import_statement
ParseWildcardFromImportStatement(t, s, tc) ==
  Bind(ParseFromHead(t, s), LAMBDA hd :
  Bind(Tag(t, hd.s, << "*" >>), LAMBDA st :
       Ok(st.s, FromImports(t, s, st.s, hd.v,
                            << [text |-> << "*" >>, off |-> hd.s.off] >>, tc))))

\* alt((parse_import_statement, parse_from_import_statement,
\*      parse_multiline_from_import_statement,
\*      parse_wildcard_from_import_statement))
ParseStatement(t, s, tc) ==
  Alt(ParseImportStatement(t, s, tc),
  Alt(ParseFromImportStatement(t, s, tc),
  Alt(ParseMultilineFromImportStatement(t, s, tc),
      ParseWildcardFromImportStatement(t, s, tc))))

\* delimited(parse_space0, tag(";"), parse_space0)
ParseStatementSep(t, s) ==
  Bind(ParseSpace0(t, s), LAMBDA a :
  Bind(Tag(t, a.s, << ";" >>), LAMBDA c : ParseSpace0(t, c.s)))

RECURSIVE ParseStatementsRest(_, _, _, _)
ParseStatementsRest(t, s, acc, tc) ==
  Alt(Bind(ParseStatementSep(t, s), LAMBDA sep :
      Bind(ParseStatement(t, sep.s, tc), LAMBDA st :
           ParseStatementsRest(t, st.s, acc \o st.v, tc))),
      Ok(s, acc))

\* (opt(parse_space0), opt(tag(";")))
ParseListEnd(t, s) ==
  Bind(ParseSpace0(t, s), LAMBDA sp : Opt(Tag(t, sp.s, << ";" >>), sp.s))

\* A statement list that gives every record the position of the list's own
\* start, in place of the position of the record's statement.
ParseImportStatementListAtStart(t, s, tc) ==
  Bind(ParseStatement(t, s, tc), LAMBDA st :
  Bind(ParseStatementsRest(t, st.s, st.v, tc), LAMBDA lst :
  Bind(ParseListEnd(t, lst.s), LAMBDA e :
       Ok(e.s, [i \in 1..Len(lst.v) |->
                 [lst.v[i] EXCEPT !.line_number = s.line,
                                  !.chain_line = s.line,
                                  !.chain_offset = s.off]]))))

\* parse_import_statement_list: the statements separated by ";", then
\* ParseListEnd; the records of all of them, flattened.
ParseImportStatementList(t, s, tc) ==
  Bind(ParseStatement(t, s, tc), LAMBDA st :
  Bind(ParseStatementsRest(t, st.s, st.v, tc), LAMBDA lst :
  Bind(ParseListEnd(t, lst.s), LAMBDA e :
       Ok(e.s, [i \in 1..Len(lst.v) |->
                 [lst.v[i] EXCEPT !.chain_line = s.line,
                                  !.chain_offset = s.off]]))))

\* -------------------------------------------------------- block parsers

\* (space0, line_ending): a blank line.
ParseBlankLine(t, s) == Bind(Space0(t, s), LAMBDA a : LineEnding(t, a.s))

\* many0((space0, line_ending)): the blank lines at the cursor.
RECURSIVE SkipBlankLines(_, _)
SkipBlankLines(t, s) ==
  Alt(Bind(ParseBlankLine(t, s), LAMBDA e : SkipBlankLines(t, e.s)),
      Ok(s, << >>))

\* A line of the block that may start with any indentation.
ParseAnyIndentedLine(t, s, indentation) ==
  Bind(Space1(t, s), LAMBDA g :
  Bind(NotLineEnding(t, g.s), LAMBDA r : OptLineEnding(t, r.s)))

\* (tag(indentation), not_line_ending, opt(line_ending))
ParseIndentedLine(t, s, indentation) ==
  Bind(Tag(t, s, indentation), LAMBDA g :
  Bind(NotLineEnding(t, g.s), LAMBDA r : OptLineEnding(t, r.s)))

\* many0(alt((blank line, indented line))): the lines that are blank or
\* start with the indentation.
RECURSIVE BlockLines(_, _, _)
BlockLines(t, s, indentation) ==
  Alt(Bind(Alt(ParseBlankLine(t, s), ParseIndentedLine(t, s, indentation)),
           LAMBDA l : BlockLines(t, l.s, indentation)),
      Ok(s, << >>))

\* A block that is handed on as a span of its own, whose lines count from 1
\* again.
BlockSpanRestarted(s, rest) == [off |-> s.off, line |-> 1, end |-> rest.off]

\* input.take_split(...) of parse_indented_block: the block keeps the offset
\* and the line of the span it was split from.
BlockSpan(s, rest) == [s EXCEPT !.end = rest.off]

\* parse_indented_block: the value is the block, the span is what follows it.
ParseIndentedBlock(t, s) ==
  Bind(SkipBlankLines(t, s), LAMBDA b :
  Bind(Space1(t, b.s), LAMBDA ind :
  Bind(NotLineEnding(t, ind.s), LAMBDA r :
  Bind(OptLineEnding(t, r.s), LAMBDA e :
  Bind(BlockLines(t, e.s, TakeSplit(t, b.s, ind.s)), LAMBDA rest :
       Ok(rest.s, BlockSpan(s, rest.s)))))))

\* all_consuming(p): p must leave nothing of its span.
AllConsuming(r) == IF r.ok /\ r.s.off = r.s.end THEN r ELSE Fail

\* The header of parse_if_typechecking: (tag("if"), parse_space1,
\* alt((tag("TYPE_CHECKING"), tag("typing.TYPE_CHECKING"))), parse_space0,
\* tag(":")).
ParseIfTypecheckingHeader(t, s) ==
  Bind(Tag(t, s, KwIf), LAMBDA kw :
  Bind(ParseSpace1(t, kw.s), LAMBDA sp :
  Bind(Alt(Tag(t, sp.s, KwTypeChecking), Tag(t, sp.s, KwTypingTypeChecking)),
       LAMBDA tc :
  Bind(ParseSpace0(t, tc.s), LAMBDA s0 : Tag(t, s0.s, << ":" >>)))))

\* (parse_space0, opt(parse_comment))
ParseLineTail(t, s) ==
  Bind(ParseSpace0(t, s), LAMBDA sp : Opt(ParseComment(t, sp.s), sp.s))

\* The single-line form: preceded(parse_space0,
\* terminated(parse_import_statement_list(true), (parse_space0, opt(parse_comment)))).
ParseInlineStatements(t, s) ==
  Bind(ParseSpace0(t, s), LAMBDA sp :
  Bind(ParseImportStatementList(t, sp.s, TRUE), LAMBDA lst :
  Bind(ParseLineTail(t, lst.s), LAMBDA e : Ok(e.s, lst.v))))

\* A block that is parsed with the flag of the top level.
BlockFlagDropped == FALSE

\* The flag the block of an `if TYPE_CHECKING:` is parsed with.
BlockFlag == TRUE

RECURSIVE ParseBlockLoop(_, _, _, _)

\* parse_block(typechecking_only)
ParseBlock(t, s, tc) == ParseBlockLoop(t, s, << >>, tc)

\* The block form: (parse_space0, opt(parse_comment), line_ending), then
\* parse_indented_block, then all_consuming(parse_block(true)) on the block.
ParseGuardedBlock(t, s) ==
  Bind(ParseLineTail(t, s), LAMBDA tl :
  Bind(LineEnding(t, tl.s), LAMBDA le :
  Bind(ParseIndentedBlock(t, le.s), LAMBDA blk :
  Bind(AllConsuming(ParseBlock(t, blk.v, BlockFlag)), LAMBDA body :
       Ok(blk.s, body.v)))))

\* parse_if_typechecking
ParseIfTypechecking(t, s) ==
  Bind(ParseIfTypecheckingHeader(t, s), LAMBDA hd :
       Alt(ParseInlineStatements(t, hd.s), ParseGuardedBlock(t, hd.s)))

\* verify(not_line_ending, |s| !s.is_empty())
ParseOtherSource(t, s) ==
  Bind(NotLineEnding(t, s), LAMBDA r : IF r.s.off > s.off THEN r ELSE Fail)

\* One alternative of parse_block's alt: r is its result and k its place in
\* the alt; value(vec![], p) drops what p returned.
Alternative(r, k, keep) ==
  [ok |-> r.ok, s |-> r.s, v |-> IF r.ok /\ keep THEN r.v ELSE << >>,
   alt |-> IF r.ok THEN k ELSE 0]

\* The alt of parse_block.
BlockAlt(t, s, tc) ==
  Alt(Alternative(ParseIfTypechecking(t, s), 1, TRUE),
  Alt(Alternative(ParseSpace1(t, s), 2, FALSE),
  Alt(Alternative(LineEnding(t, s), 3, FALSE),
  Alt(Alternative(ParseMultilineComment(t, s), 4, FALSE),
  Alt(Alternative(ParseComment(t, s), 5, FALSE),
  Alt(Alternative(ParseImportStatementList(t, s, tc), 6, TRUE),
      Alternative(ParseOtherSource(t, s), 7, FALSE)))))))

\* A step that puts what an iteration returns before what the earlier ones
\* returned.
Many0StepPrepending(t, s, acc, tc, r) ==
  IF ~r.ok THEN Ok(s, acc)
  ELSE IF r.s.off = s.off THEN Fail
  ELSE ParseBlockLoop(t, r.s, r.v \o acc, tc)

\* many0's step on the result r of its parser at s: an error of the parser
\* ends the loop, a success that consumed nothing is many0's own error.
Many0Step(t, s, acc, tc, r) ==
  IF ~r.ok THEN Ok(s, acc)
  ELSE IF r.s.off = s.off THEN Fail
  ELSE ParseBlockLoop(t, r.s, acc \o r.v, tc)

\* many0(alt(...)), the results flattened.
ParseBlockLoop(t, s, acc, tc) == Many0Step(t, s, acc, tc, BlockAlt(t, s, tc))

\* parse_imports: all_consuming(parse_block(false)) on Span::new(s).
ParseImports(t) == AllConsuming(ParseBlock(t, NewSpan(t), FALSE))

\* ------------------------------------------------------------ the inputs

(***************************************************************************)
(* The texts parse_imports is run on.  A text is pre \o body \o post: the  *)
(* body is a sequence of chunks, each a statement or another construct     *)
(* followed by the rest of its line; pre and post are lines of other code. *)
(* A chunk records how it was written (the statement's own text, and for a *)
(* well-formed statement the imports it names), which the parser never     *)
(* sees.                                                                   *)
(***************************************************************************)

\* The longest body, in chunks.
MaxChunks == 2

\* The longest list of names in a generated statement.
MaxItems == 2

RECURSIVE Concat(_)
Concat(ss) == IF ss = << >> THEN << >> ELSE Head(ss) \o Concat(Tail(ss))

\* One import a chunk names: the name, the line of its statement within the
\* chunk (0 for the first), whether it is under a TYPE_CHECKING guard and the
\* statement's own text.
Named(object, dline, tc, contents) ==
  [object |-> object, dline |-> dline, tc |-> tc, contents |-> contents]

Chunk(kind, text, names, clean) ==
  [kind |-> kind, text |-> text, names |-> names, clean |-> clean]

\* A name a statement lists, and its alias (<< >> when it has none).
Item(name, alias) == [name |-> name, alias |-> alias]

\* The names a simple import lists, and the names a from-import lists.
ModuleItems == { Item(<< "a" >>, << >>), Item(<< "p", ".", "q" >>, << "r" >>) }
IdentItems == { Item(<< "b" >>, << >>), Item(<< "c" >>, << "d" >>) }

\* The relative modules of the from-imports.
RelativeModules ==
  { << "p" >>, << "." >>, << ".", "." >>, << ".", "p" >>, << "p", ".", "q" >> }

ItemLists(items) == UNION { [1..n -> items] : n \in 1..MaxItems }

\* An item as written: the name, and "as" and the alias after asgap.
RenderItem(it, asgap) ==
  IF it.alias = << >> THEN it.name
  ELSE it.name \o asgap \o KwAs \o asgap \o it.alias

RECURSIVE RenderItems(_, _, _)
RenderItems(its, sep, asgap) ==
  IF Len(its) = 1 THEN RenderItem(its[1], asgap)
  ELSE RenderItem(its[1], asgap) \o sep \o RenderItems(Tail(its), sep, asgap)

\* The canonical name of the name i imported from the relative module m.
Canonical(m, i) ==
  IF m[Len(m)] = "." THEN m \o i ELSE m \o << "." >> \o i

\* A statement as written, and the objects it imports.
Stmt(form, text, objects) == [form |-> form, text |-> text, objects |-> objects]

ImportStmt(its) ==
  Stmt("import", KwImport \o << SP >> \o RenderItems(its, << ",", SP >>, << SP >>),
       [i \in 1..Len(its) |-> its[i].name])

FromHeadText(m) == KwFrom \o << SP >> \o m \o << SP >> \o KwImport \o << SP >>

FromStmt(m, its) ==
  Stmt("from", FromHeadText(m) \o RenderItems(its, << ",", SP >>, << SP >>),
       [i \in 1..Len(its) |-> Canonical(m, its[i].name)])

WildStmt(m) ==
  Stmt("wild", FromHeadText(m) \o << "*" >>, << Canonical(m, << "*" >>) >>)

\* A parenthesised from-import: gap is written after "(", around each ","
\* and before ")", asgap around "as"; trailing adds a "," after the last item.
ParenStmt(m, its, gap, asgap, trailing) ==
  Stmt("paren",
       FromHeadText(m) \o << "(" >> \o gap
         \o RenderItems(its, gap \o << "," >> \o gap, asgap)
         \o (IF trailing THEN gap \o << "," >> ELSE << >>) \o gap \o << ")" >>,
       [i \in 1..Len(its) |-> Canonical(m, its[i].name)])

\* What may stand between the tokens of a parenthesised list.
CommentGap == << SP, "#", "c", NL, SP >>
Gaps == { << >>, << SP >>, << NL, SP, SP >>, CommentGap }
AsGaps == { << SP >>, << NL, SP >>, CommentGap }

ParenVariants ==
  { [gap |-> g, asgap |-> << SP >>, trailing |-> tr] : g \in Gaps, tr \in BOOLEAN }
    \cup { [gap |-> << SP >>, asgap |-> g, trailing |-> FALSE] : g \in AsGaps }

\* What may follow a statement on its line.
Trails ==
  { << NL >>, << SP, "#", "c", NL >>, << ";", NL >>, << SP, ";", SP, NL >>,
    << CR, NL >> }

\* A statement and the rest of its line, as a chunk of kind k.
StmtChunk(k, st, trail, tc) ==
  Chunk(k, st.text \o trail,
        [i \in 1..Len(st.objects) |-> Named(st.objects[i], 0, tc, st.text)], TRUE)

ImportChunks ==
  { StmtChunk("import", ImportStmt(its), tr, FALSE) :
      its \in ItemLists(ModuleItems), tr \in Trails }

FromChunks ==
  { StmtChunk("from", FromStmt(m, its), << NL >>, FALSE) :
      m \in RelativeModules, its \in ItemLists(IdentItems) }

WildChunks ==
  { StmtChunk("wild", WildStmt(m), tr, FALSE) :
      m \in RelativeModules, tr \in { << NL >>, << SP, "#", "c", NL >> } }

ParenModules == { << "p" >>, << ".", "." >> }

ParenChunk(m, its, v) ==
  StmtChunk("paren", ParenStmt(m, its, v.gap, v.asgap, v.trailing), << NL >>, FALSE)

ParenChunks ==
  { ParenChunk(m, its, v) :
      m \in ParenModules, its \in ItemLists(IdentItems), v \in ParenVariants }

\* The parenthesised statements with a comment between a name and its "as".
HasAlias(its) == \E i \in 1..Len(its) : its[i].alias # << >>

CommentAsChunks ==
  { ParenChunk(m, its, [gap |-> << SP >>, asgap |-> CommentGap, trailing |-> FALSE]) :
      m \in ParenModules, its \in { x \in ItemLists(IdentItems) : HasAlias(x) } }

\* Statements for the compound chunks.
StmtA == ImportStmt(<< Item(<< "a" >>, << >>) >>)
StmtB == FromStmt(<< "p" >>, << Item(<< "b" >>, << >>) >>)
StmtC ==
  ParenStmt(<< "." >>, << Item(<< "b" >>, << >>), Item(<< "c" >>, << "d" >>) >>,
            << NL, SP, SP >>, << SP >>, TRUE)
StmtW == WildStmt(<< ".", "." >>)

NamedAt(st, dline, tc) ==
  [i \in 1..Len(st.objects) |-> Named(st.objects[i], dline, tc, st.text)]

\* Two statements joined by ";": the second starts on the line the
\* separator (and the first statement) leave it on.
ChainSeps == { << ";", SP >>, << SP, ";", BSL, NL >> }

ChainChunk(s1, sep, s2, trail) ==
  Chunk("chain", s1.text \o sep \o s2.text \o trail,
        NamedAt(s1, 0, FALSE)
          \o NamedAt(s2, CountNL(s1.text \o sep, 1, Len(s1.text \o sep)), FALSE),
        TRUE)

ChainChunks ==
  { ChainChunk(s1, sep, s2, << NL >>) :
      s1 \in { StmtA, StmtB, StmtC }, sep \in ChainSeps,
      s2 \in { StmtA, StmtC, StmtW } }

\* The two spellings of the guard.
TcHeaders ==
  { KwIf \o << SP >> \o KwTypeChecking \o << ":" >>,
    KwIf \o << SP, SP >> \o KwTypingTypeChecking \o << SP, ":" >> }

\* if TYPE_CHECKING: <statement>
TcInlineChunk(h, st, trail) ==
  Chunk("tc", h \o << SP >> \o st.text \o trail, NamedAt(st, 0, TRUE), TRUE)

TcInlineChunks ==
  { TcInlineChunk(h, st, tr) :
      h \in TcHeaders, st \in { StmtA, StmtB, StmtW },
      tr \in { << NL >>, << SP, "#", "c", NL >> } }

\* if TYPE_CHECKING: and a block of one or two statements, each on a line of
\* its own after the indentation ind; rest is the rest of the header's line
\* (and any blank lines before the block).
TcBlockChunk(h, rest, ind, sts) ==
  Chunk("tc",
        h \o rest \o Concat([i \in 1..Len(sts) |-> ind \o sts[i].text \o << NL >>]),
        Concat([i \in 1..Len(sts) |->
                 NamedAt(sts[i], CountNL(rest, 1, Len(rest)) + i - 1, TRUE)]),
        TRUE)

TcBlockChunks ==
  { TcBlockChunk(h, rest, ind, sts) :
      h \in TcHeaders,
      rest \in { << NL >>, << SP, "#", "c", NL >>, << NL, SP, NL >> },
      ind \in { << SP, SP >>, << TAB >> },
      sts \in { << StmtA >>, << StmtB, StmtA >> } }

\* A guard nested in the block of a guard.
TcNestedChunk ==
  LET h == KwIf \o << SP >> \o KwTypeChecking \o << ":", NL >>
  IN Chunk("tc",
           h \o << SP >> \o StmtA.text \o << NL >>
             \o << SP >> \o h
             \o << SP, SP >> \o StmtB.text \o << NL >>
             \o << SP >> \o StmtW.text \o << NL >>,
           NamedAt(StmtA, 1, TRUE) \o NamedAt(StmtB, 3, TRUE)
             \o NamedAt(StmtW, 4, TRUE),
           TRUE)

\* Lines of other code.
OtherLine == Chunk("other", << "x", SP, "=", SP, "1", NL >>, << >>, TRUE)
BlankLine == Chunk("other", << NL >>, << >>, TRUE)
CommentLine == Chunk("other", << "#", SP, "i", "m", "p", "o", "r", "t", SP, "h", NL >>, << >>, TRUE)

\* An import in the body of a function.
NestedChunk ==
  Chunk("nested", << "d", "e", "f", SP, "f", "(", ")", ":", NL, SP, SP >> \o StmtA.text \o << NL >>, NamedAt(StmtA, 1, FALSE), TRUE)

\* Triple-quoted literals that hold the text of an import: alone on their
\* lines, and as the value of an assignment.
LiteralText == << NL, "i", "m", "p", "o", "r", "t", SP, "h", NL >>
LiteralChunks ==
  { Chunk("literal", q \o LiteralText \o q \o << NL >>, << >>, TRUE) :
      q \in { TripleDouble, TripleSingle } }
AssignedLiteralChunk ==
  Chunk("literal", << "x", SP, "=", SP >> \o TripleDouble \o LiteralText \o TripleDouble \o << NL >>,
        << >>, TRUE)

\* Texts that are no whole construct of the language.
BrokenChunks ==
  { Chunk("broken", t, << >>, FALSE) :
      t \in { << CR >>, << "x", CR, "y", NL >>, TripleDouble, KwImport, << "f", "r", "o", "m", SP, "p", SP, "i", "m", "p", "o", "r", "t", SP, "(", "b" >>,
              << "i", "f", SP, "T", "Y", "P", "E", "_", "C", "H", "E", "C", "K", "I", "N", "G", ":" >>, << "i", "f", SP, "T", "Y", "P", "E", "_", "C", "H", "E", "C", "K", "I", "N", "G", ":", NL >>, << SP, SP, "i", "m", "p", "o", "r", "t", SP, "a", NL >> } }

\* Statements whose runs of horizontal whitespace are all written as gap:
\* after "import" and "from", before "import", around "as" and after ",".
ImportStmtWith(its, gap) ==
  Stmt("import", KwImport \o gap \o RenderItems(its, << "," >> \o gap, gap),
       [i \in 1..Len(its) |-> its[i].name])

FromStmtWith(m, its, gap) ==
  Stmt("from",
       KwFrom \o gap \o m \o gap \o KwImport \o gap
         \o RenderItems(its, << "," >> \o gap, gap),
       [i \in 1..Len(its) |-> Canonical(m, its[i].name)])

WildStmtWith(m, gap) ==
  Stmt("wild", KwFrom \o gap \o m \o gap \o KwImport \o gap \o << "*" >>,
       << Canonical(m, << "*" >>) >>)

\* The statements written with the gap: shape 1, 2 and 3.
StmtShapes == 1..3

StmtWith(shape, gap) ==
  CASE shape = 1 ->
         ImportStmtWith(<< Item(<< "a" >>, << >>),
                           Item(<< "p", ".", "q" >>, << "r" >>) >>, gap)
    [] shape = 2 ->
         FromStmtWith(<< ".", "p" >>,
                      << Item(<< "b" >>, << >>), Item(<< "c" >>, << "d" >>) >>, gap)
    [] OTHER -> WildStmtWith(<< "p" >>, gap)

\* A run of spaces, and runs that hold a backslash-newline: one that leaves
\* the next token at the start of its line, one that indents it.
PlainGap == << SP >>
OutdentingGap == << SP, BSL, NL >>
IndentingGap == << BSL, NL, SP, SP >>
ContinuationGaps == { OutdentingGap, IndentingGap }

\* Where the statement stands: on a line of its own, after a guard on the
\* guard's line, or alone in the block of a guard (indented by two spaces).
Contexts == { "top", "inline", "block" }

PlainHeader == KwIf \o << SP >> \o KwTypeChecking \o << ":" >>

InContext(ctx, st) ==
  CASE ctx = "top" -> StmtChunk("cont", st, << NL >>, FALSE)
    [] ctx = "inline" -> TcInlineChunk(PlainHeader, st, << NL >>)
    [] OTHER -> TcBlockChunk(PlainHeader, << NL >>, << SP, SP >>, << st >>)

ContinuationChunks ==
  { InContext(ctx, StmtWith(sh, gap)) :
      ctx \in Contexts, sh \in StmtShapes,
      gap \in ContinuationGaps \cup { PlainGap } }

\* The statements of a block with a continuation line that does not start
\* with the indentation of the block.
OutdentedChunks ==
  { InContext("block", StmtWith(sh, OutdentingGap)) : sh \in StmtShapes }

\* Guards with blocks of several shapes, each followed by an unguarded
\* statement: blank and whitespace-only lines and a deeper line in the block
\* and a blank line after it; a block indented by spaces that a line
\* indented by a tab follows, and the reverse; a block indented by a tab
\* that a deeper line follows.
ShapedBlock(lines, names) ==
  Chunk("shape", PlainHeader \o << NL >> \o Concat(lines), names, TRUE)

LineOf(ind, st) == ind \o st.text \o << NL >>

ShapedBlocks ==
  { ShapedBlock(<< << NL >>, LineOf(<< SP, SP >>, StmtA), << NL >>, << SP, NL >>,
                   LineOf(<< SP, SP, SP, SP >>, StmtB), << NL >>,
                   LineOf(<< >>, StmtA) >>,
                NamedAt(StmtA, 2, TRUE) \o NamedAt(StmtB, 5, TRUE)
                  \o NamedAt(StmtA, 7, FALSE)),
    ShapedBlock(<< LineOf(<< SP, SP >>, StmtA), LineOf(<< TAB >>, StmtB) >>,
                NamedAt(StmtA, 1, TRUE) \o NamedAt(StmtB, 2, FALSE)),
    ShapedBlock(<< LineOf(<< TAB >>, StmtA), LineOf(<< SP, SP >>, StmtB) >>,
                NamedAt(StmtA, 1, TRUE) \o NamedAt(StmtB, 2, FALSE)),
    ShapedBlock(<< LineOf(<< TAB >>, StmtA), LineOf(<< TAB, SP >>, StmtB),
                   LineOf(<< SP >>, StmtW) >>,
                NamedAt(StmtA, 1, TRUE) \o NamedAt(StmtB, 2, TRUE)
                  \o NamedAt(StmtW, 3, FALSE)) }

\* Texts with a triple quote that nothing closes: alone on its line, as the
\* value of an assignment, before a statement on its line, and in the block
\* of a guard; statements follow on the next lines.
OpenLiteralChunks ==
  { Chunk("open", TripleDouble \o << NL >> \o LineOf(<< >>, StmtA),
          NamedAt(StmtA, 1, FALSE), FALSE),
    Chunk("open", << "x", SP, "=", SP >> \o TripleSingle \o << NL >>
                    \o LineOf(<< >>, StmtB),
          NamedAt(StmtB, 1, FALSE), FALSE),
    Chunk("open", TripleDouble \o LineOf(<< >>, StmtA) \o LineOf(<< >>, StmtW),
          NamedAt(StmtW, 1, FALSE), FALSE),
    Chunk("open", PlainHeader \o << NL, SP, SP >> \o TripleDouble \o << NL >>
                    \o LineOf(<< SP, SP >>, StmtA) \o LineOf(<< >>, StmtB),
          NamedAt(StmtA, 2, TRUE) \o NamedAt(StmtB, 3, FALSE), FALSE) }

\* Guards that neither a statement list nor a block follows, each before a
\* statement on a line of its own: `pass` after the header, nothing
\* indented on the next line, a comment and a blank line before it, `pass`
\* and a statement after the header, an assignment after the other header.
Pass == << "p", "a", "s", "s" >>

BareGuard(h, rest, st, dline) ==
  Chunk("bare", h \o rest \o LineOf(<< >>, st), NamedAt(st, dline, FALSE), TRUE)

BareGuardChunks ==
  { BareGuard(PlainHeader, << SP >> \o Pass \o << NL >>, StmtA, 1),
    BareGuard(PlainHeader, << NL >>, StmtA, 1),
    BareGuard(PlainHeader, << SP, SP, "#", SP, "c", NL, NL >>, StmtB, 2),
    BareGuard(PlainHeader, << SP >> \o Pass \o << ";", SP >> \o StmtA.text \o << NL >>,
              StmtW, 1),
    BareGuard(KwIf \o << SP >> \o KwTypingTypeChecking \o << SP, ":" >>,
              << SP, "x", SP, "=", SP, "1", NL >>, StmtA, 1) }

\* A guard that nothing follows but `pass`, in the block of a guard.
BareGuardInBlock ==
  Chunk("tc",
        PlainHeader \o << NL, SP, SP >> \o PlainHeader \o << SP >> \o Pass
          \o << NL >> \o LineOf(<< SP, SP >>, StmtA),
        NamedAt(StmtA, 2, TRUE), TRUE)

\* Lines that start as a statement and do not go on as one: a keyword
\* alone, a from-import without names, parenthesised lists without ")".
PartialChunks ==
  { Chunk("partial", t \o << NL >>, << >>, FALSE) :
      t \in { KwImport, KwImport \o << SP >>,
              FromHeadText(<< "p" >>),
              FromHeadText(<< "p" >>) \o << "(", "b" >>,
              FromHeadText(<< ".", "." >>) \o << "(", "b", ",", NL, SP, "c", "," >>,
              KwFrom \o << SP >> \o KwImport \o << SP, "b" >> } }

\* The chunks a body of one chunk is drawn from, and those a longer body is.
AllChunks ==
  ImportChunks \cup FromChunks \cup WildChunks \cup ParenChunks
    \cup ChainChunks \cup TcInlineChunks \cup TcBlockChunks
    \cup ContinuationChunks \cup PartialChunks \cup ShapedBlocks
    \cup OpenLiteralChunks \cup BareGuardChunks \cup { BareGuardInBlock }
    \cup { TcNestedChunk, OtherLine, BlankLine, CommentLine, NestedChunk,
           AssignedLiteralChunk }
    \cup LiteralChunks \cup BrokenChunks

CoreChunks ==
  { StmtChunk("import", StmtA, << NL >>, FALSE),
    StmtChunk("from", StmtB, << SP, "#", "c", NL >>, FALSE),
    StmtChunk("paren", StmtC, << NL >>, FALSE),
    ChainChunk(StmtC, << ";", SP >>, StmtW, << NL >>),
    TcInlineChunk(KwIf \o << SP >> \o KwTypeChecking \o << ":" >>, StmtA, << NL >>),
    TcBlockChunk(KwIf \o << SP >> \o KwTypeChecking \o << ":" >>, << NL >>,
                 << SP, SP >>, << StmtB, StmtA >>),
    OtherLine, NestedChunk, AssignedLiteralChunk,
    Chunk("literal", TripleDouble \o LiteralText \o TripleDouble \o << NL >>,
          << >>, TRUE),
    Chunk("broken", << CR >>, << >>, FALSE),
    Chunk("broken", TripleDouble, << >>, FALSE),
    Chunk("broken", << "i", "f", SP, "T", "Y", "P", "E", "_", "C", "H", "E", "C", "K", "I", "N", "G", ":", NL >>, << >>, FALSE),
    Chunk("broken", << SP, SP, "i", "m", "p", "o", "r", "t", SP, "a", NL >>, << >>, FALSE) }

Bodies ==
  { << c >> : c \in AllChunks }
    \cup UNION { [1..n -> CoreChunks] : n \in 2..MaxChunks }

\* Other code before and after the body: nothing, a line of code, an
\* assignment of a triple-quoted literal, a line that ends in a lone "\r".
PreTexts == { << >>, << "x", SP, "=", SP, "1", NL >>, << "s", SP, "=", SP, DQ, DQ, DQ, NL, "t", NL, DQ, DQ, DQ, NL >>, << "y", CR >> }
PostTexts == { << >>, << "x", SP, "=", SP, "1", NL >>, << "y", CR >> }

Gen(pre, body, post) == [pre |-> pre, body |-> body, post |-> post]

BodyText(g) == Concat([i \in 1..Len(g.body) |-> g.body[i].text])
GenText(g) == g.pre \o BodyText(g) \o g.post

\* ------------------------------------------------------- the state machine

(***************************************************************************)
(* One call of parse_imports.  gen is how the text was written and input   *)
(* the text; cur is the cursor of the outermost parse_block's many0,       *)
(* result what its iterations have returned so far, regions the stretches  *)
(* of text parse_if_typechecking has consumed there, before the offset at   *)
(* which the latest iteration started (-1 before the first).  Each action  *)
(* is one iteration that ends in the alternative it is named after; Finish *)
(* is the end of the loop, all_consuming and the value parse_imports       *)
(* returns.                                                                *)
(***************************************************************************)
VARIABLES gen, input, cur, result, regions, before, pc, outcome

vars == << gen, input, cur, result, regions, before, pc, outcome >>

Init ==
  /\ gen \in { Gen(pre, body, post) :
                 pre \in PreTexts, body \in Bodies, post \in PostTexts }
  /\ input = GenText(gen)
  /\ cur = NewSpan(input)
  /\ result = << >>
  /\ regions = { }
  /\ before = -1
  /\ pc = "parse"
  /\ outcome = "none"

\* One iteration of many0 that the k-th alternative of alt matches.
Iterate(k) ==
  /\ \E r \in { BlockAlt(input, cur, FALSE) } :
        /\ r.ok
        /\ r.alt = k
        /\ cur' = r.s
        /\ result' = result \o r.v
        /\ regions' = IF k = 1
                      THEN regions \cup { [from |-> cur.off, to |-> r.s.off] }
                      ELSE regions
        /\ before' = cur.off
  /\ UNCHANGED << gen, input, pc, outcome >>

MatchIfTypechecking ==
  /\ pc = "parse"
  /\ Iterate(1)

SkipSpace ==
  /\ pc = "parse"
  /\ Iterate(2)

SkipLineEnding ==
  /\ pc = "parse"
  /\ Iterate(3)

SkipMultilineComment ==
  /\ pc = "parse"
  /\ Iterate(4)

SkipComment ==
  /\ pc = "parse"
  /\ Iterate(5)

MatchImportStatementList ==
  /\ pc = "parse"
  /\ Iterate(6)

SkipOtherSource ==
  /\ pc = "parse"
  /\ Iterate(7)


\* No alternative matches: many0 ends, and all_consuming makes what is left
\* of the input an error, which parse_imports returns in place of the list.
Finish ==
  /\ pc = "parse"
  /\ ~BlockAlt(input, cur, FALSE).ok
  /\ pc' = "done"
  /\ outcome' = IF cur.off = cur.end THEN "ok" ELSE "error"
  /\ result' = IF cur.off = cur.end THEN result ELSE << >>
  /\ UNCHANGED << gen, input, cur, regions, before >>

Next ==
  \/ MatchIfTypechecking
  \/ SkipSpace
  \/ SkipLineEnding
  \/ SkipMultilineComment
  \/ SkipComment
  \/ MatchImportStatementList
  \/ SkipOtherSource
  \/ Finish

Spec == Init /\ [][Next]_vars

\* ------------------------------------------- what a text was written to import

NoCR(t) == \A i \in 1..Len(t) : t[i] # CR

\* A text written from well-formed chunks between lines of other code.
WellFormed(g) ==
  /\ NoCR(g.pre)
  /\ NoCR(g.post)
  /\ \A k \in 1..Len(g.body) : g.body[k].clean

\* A well-formed text in which every line of a statement of a block starts
\* with the indentation of the block, and every chunk that holds a guard
\* ends with the guard's block.
BlocksAsWritten(g) ==
  /\ WellFormed(g)
  /\ \A k \in 1..Len(g.body) :
       g.body[k] \notin OutdentedChunks /\ g.body[k].kind # "shape"

\* A well-formed text with no import-like text in a literal, no comment
\* before an "as" and no continuation line that leaves the block it is in.
Recognisable(g) ==
  /\ WellFormed(g)
  /\ \A k \in 1..Len(g.body) :
       /\ g.body[k].kind # "literal"
       /\ g.body[k] \notin CommentAsChunks
       /\ g.body[k] \notin OutdentedChunks

\* The offset at which the k-th chunk of the body starts (k = Len + 1: where
\* post starts).
ChunkStart(g, k) ==
  Len(g.pre) + Len(Concat([i \in 1..(k - 1) |-> g.body[i].text]))

\* The kind of the chunk the offset lies in.
KindAt(g, off) ==
  IF \E k \in 1..Len(g.body) : ChunkStart(g, k) <= off /\ off < ChunkStart(g, k + 1)
  THEN g.body[CHOOSE k \in 1..Len(g.body) :
                ChunkStart(g, k) <= off /\ off < ChunkStart(g, k + 1)].kind
  ELSE "none"

\* The 1-based line of the character at offset off, and the lines of a text.
LineAt(t, off) == 1 + CountNL(t, 1, off)
NumberOfLines(t) ==
  CountNL(t, 1, Len(t)) + (IF t # << >> /\ t[Len(t)] # NL THEN 1 ELSE 0)

\* The imports the chunks name, in the order they are written, and the
\* fields of the records to compare with them.
ExpectedOf(g, k) ==
  [i \in 1..Len(g.body[k].names) |->
    [object |-> g.body[k].names[i].object,
     line |-> LineAt(GenText(g), ChunkStart(g, k)) + g.body[k].names[i].dline,
     tc |-> g.body[k].names[i].tc,
     contents |-> g.body[k].names[i].contents]]

Expected(g) == Concat([k \in 1..Len(g.body) |-> ExpectedOf(g, k)])

Observed(rs) ==
  [i \in 1..Len(rs) |->
    [object |-> rs[i].imported_object, line |-> rs[i].line_number,
     tc |-> rs[i].typechecking_only, contents |-> rs[i].line_contents]]

Objects(xs) == [i \in 1..Len(xs) |-> xs[i].object]
Lines(xs) == [i \in 1..Len(xs) |-> xs[i].line]
Flags(xs) == [i \in 1..Len(xs) |-> xs[i].tc]
Contents(xs) == [i \in 1..Len(xs) |-> xs[i].contents]

Returned == pc = "done" /\ outcome = "ok"

\* "import" or "from" starts at the offset.
KeywordAt(t, off) ==
  \/ off + Len(KwImport) <= Len(t) /\ SubSeq(t, off + 1, off + Len(KwImport)) = KwImport
  \/ off + Len(KwFrom) <= Len(t) /\ SubSeq(t, off + 1, off + Len(KwFrom)) = KwFrom

\* The offset lies in a stretch parse_if_typechecking has consumed.
InRegion(off) == \E g \in regions : g.from <= off /\ off < g.to

\* ------------------------------------------------------------ properties

\* C1: parse_imports never returns an error: whatever the input, the block
\* driver consumes all of it and the call returns the list of records.
NeverFails == pc = "done" => outcome = "ok"

\* C2: a record has typechecking_only = true if and only if its statement
\* lies in a recognised TYPE_CHECKING region (the inline list or the indented
\* block, nested guards included); records before the header and after the
\* end of the region have it false.  In a well-formed text whose blocks keep
\* their indentation the regions are the guards as written.
TypecheckingOnlyIffGuarded ==
  /\ \A i \in 1..Len(result) :
       /\ result[i].typechecking_only <=> InRegion(result[i].offset)
       /\ BlocksAsWritten(gen) =>
            (result[i].typechecking_only <=> KindAt(gen, result[i].offset) = "tc")
  /\ (Returned /\ Recognisable(gen)) =>
       Flags(Observed(result)) = Flags(Expected(gen))

\* Guarded records, among them those of a block, are followed by an
\* unguarded record.
GuardedThenUnguarded ==
  /\ Returned
  /\ \E i, j \in 1..Len(result) :
       /\ i < j
       /\ result[i].typechecking_only
       /\ result[i].line_number > LineAt(input, (CHOOSE g \in regions :
            g.from <= result[i].offset /\ result[i].offset < g.to).from)
       /\ ~result[j].typechecking_only

\* C3: every from-import (single-line, parenthesised, wildcard) yields one
\* record per listed item, named m + i when m ends in "." and m + "." + i
\* otherwise ("*" for i in a wildcard import), never by an alias.
FromImportsNamedCanonically ==
  (/\ Returned
   /\ WellFormed(gen)
   /\ Len(gen.body) = 1
   /\ gen.body[1].kind \in { "from", "paren", "wild" })
    => Objects(Observed(result)) = Objects(Expected(gen))

\* C4: line_number is the 1-based line, in the whole input, of the first
\* character of the statement's keyword, in a re-parsed block too; so it lies
\* between 1 and the number of lines of the input.
LineNumberIsKeywordLine ==
  /\ \A i \in 1..Len(result) :
       /\ KeywordAt(input, result[i].offset)
       /\ result[i].line_number = LineAt(input, result[i].offset)
       /\ 1 <= result[i].line_number
       /\ result[i].line_number <= NumberOfLines(input)
  /\ (Returned /\ Recognisable(gen)) =>
       Lines(Observed(result)) = Lines(Expected(gen))

\* A record of a block that starts on a later line than its guard, after
\* other lines.
RecordInsideBlock ==
  /\ Returned
  /\ \E i \in 1..Len(result), g \in regions :
       /\ g.from <= result[i].offset /\ result[i].offset < g.to
       /\ LineAt(input, g.from) > 1
       /\ result[i].line_number > LineAt(input, g.from)

\* The name a record was made from is written at name_offset.
NameWrittenAt(r) ==
  \E n \in 1..Len(r.imported_object) :
    /\ r.name_offset + n <= Len(input)
    /\ SubSeq(input, r.name_offset + 1, r.name_offset + n)
         = SubSeq(r.imported_object, Len(r.imported_object) - n + 1,
                  Len(r.imported_object))

\* C5: the records are in source order: line_number never decreases along
\* the list and the names are written left to right, across the flattening
\* of guarded regions and of ";" chains; duplicates are kept.
SourceOrder ==
  /\ \A i \in 1..Len(result) : NameWrittenAt(result[i])
  /\ \A i, j \in 1..Len(result) :
       i < j => /\ result[i].line_number <= result[j].line_number
                /\ result[i].name_offset < result[j].name_offset
  /\ (Returned /\ Recognisable(gen)) =>
       Objects(Observed(result)) = Objects(Expected(gen))

\* The same object twice, from one statement.
DuplicateKept ==
  /\ Returned
  /\ \E i, j \in 1..Len(result) :
       /\ i < j
       /\ result[i].imported_object = result[j].imported_object
       /\ result[i].offset = result[j].offset

\* The text with the import-like lines of its literals replaced by other
\* text of the same length.
OtherText == << NL, "x", "x", "x", "x", "x", "x", SP, "x", NL >>

InLiteralText(t, i) ==
  \E k \in 1..i :
    /\ i < k + Len(LiteralText)
    /\ k + Len(LiteralText) - 1 <= Len(t)
    /\ SubSeq(t, k, k + Len(LiteralText) - 1) = LiteralText

LiteralTextAt(t, i) ==
  CHOOSE k \in 1..i :
    /\ i < k + Len(LiteralText)
    /\ k + Len(LiteralText) - 1 <= Len(t)
    /\ SubSeq(t, k, k + Len(LiteralText) - 1) = LiteralText

WithoutLiteralText(t) ==
  [i \in 1..Len(t) |->
    IF InLiteralText(t, i) THEN OtherText[i - LiteralTextAt(t, i) + 1] ELSE t[i]]

\* C6: import-like text in a triple-quoted literal yields no record: the
\* records of a text are those of the text with the inner text of its
\* literals replaced by non-import text.
LiteralsYieldNothing ==
  (Returned /\ WellFormed(gen)) =>
    result = ParseImports(WithoutLiteralText(input)).v

\* C7, as the claim states it: every record of a ";" chain has the line
\* number at which the chain starts.
ChainSharesStartLine ==
  \A i \in 1..Len(result) : result[i].line_number = result[i].chain_line

\* C7, amended: every record of a ";" chain has the line of its own
\* statement's keyword, which is the line at which the chain starts plus the
\* newlines between the chain's first keyword and that keyword; the records
\* of the chain's first statement have the chain's starting line.
ChainRecordsOnOwnLines ==
  \A i \in 1..Len(result) :
    /\ result[i].chain_line = LineAt(input, result[i].chain_offset)
    /\ result[i].line_number
         = result[i].chain_line
             + CountNL(input, result[i].chain_offset + 1, result[i].offset)
    /\ result[i].offset = result[i].chain_offset
         => result[i].line_number = result[i].chain_line

\* A chain whose second statement starts on a later line than the chain.
ChainOverLines ==
  /\ Returned
  /\ \E i, j \in 1..Len(result) :
       /\ i < j
       /\ result[i].chain_offset = result[j].chain_offset
       /\ result[i].line_number = result[i].chain_line
       /\ result[j].line_number > result[j].chain_line

\* C8: line_contents is the verbatim text of the input from the statement's
\* keyword to the last token the statement parser consumed (a name, an
\* alias, ")" or "*"), with no whitespace, ";", comment or newline after it;
\* the records of one statement carry the same line_contents.
LineContentsVerbatim ==
  /\ \A i \in 1..Len(result) :
       /\ KeywordAt(input, result[i].offset)
       /\ Len(result[i].line_contents) > 0
       /\ result[i].offset + Len(result[i].line_contents) <= Len(input)
       /\ result[i].line_contents
            = SubSeq(input, result[i].offset + 1,
                     result[i].offset + Len(result[i].line_contents))
       /\ result[i].line_contents[Len(result[i].line_contents)]
            \in IdentChars \cup { ")", "*" }
       /\ \A j \in 1..Len(result) :
            result[j].offset = result[i].offset
              => result[j].line_contents = result[i].line_contents
  /\ (Returned /\ Recognisable(gen)) =>
       Contents(Observed(result)) = Contents(Expected(gen))

\* Two records of one statement that a space or a ";" follows in the input.
SharedContentsBeforeTrail ==
  /\ Returned
  /\ \E i, j \in 1..Len(result) :
       /\ i < j
       /\ result[i].offset = result[j].offset
       /\ result[i].offset + Len(result[i].line_contents) < Len(input)
       /\ input[result[i].offset + Len(result[i].line_contents) + 1]
            \in { SP, ";" }

\* C9: a parenthesised from-import with any mixture of newlines, whitespace
\* and comments between its tokens (an optional "," after the last item)
\* yields the objects of the single-line from-import with the same items,
\* all with the line of the "from" keyword.
ParenthesisedAsSingleLine ==
  (/\ Returned
   /\ WellFormed(gen)
   /\ Len(gen.body) = 1
   /\ gen.body[1].kind = "paren")
    => \A m \in ParenModules, its \in ItemLists(IdentItems),
          v \in ParenVariants :
         gen.body[1] = ParenChunk(m, its, v)
           => /\ Objects(Observed(result))
                   = Objects(Observed(
                       ParseImports(FromStmt(m, its).text \o << NL >>).v))
              /\ \A i \in 1..Len(result) :
                   result[i].line_number = LineAt(input, Len(gen.pre))

\* The records of the body alone, moved behind the text pre.
Shifted(rs, pre) ==
  [i \in 1..Len(rs) |->
    [rs[i] EXCEPT !.line_number = @ + CountNL(pre, 1, Len(pre)),
                  !.chain_line = @ + CountNL(pre, 1, Len(pre)),
                  !.offset = @ + Len(pre),
                  !.name_offset = @ + Len(pre),
                  !.chain_offset = @ + Len(pre)]]

\* Whole lines of other code.
WholeLines(t) == NoCR(t) /\ (t = << >> \/ t[Len(t)] = NL)

\* C10: other code before and after a text leaves the records of the text
\* as they are, but for the line numbers, which move by the newlines of the
\* code before.
OtherCodeOnlyShiftsLines ==
  (/\ pc = "done"
   /\ WellFormed(gen)
   /\ WholeLines(gen.pre)
   /\ WholeLines(gen.post))
    => /\ (outcome = "ok") = ParseImports(BodyText(gen)).ok
       /\ result = Shifted(ParseImports(BodyText(gen)).v, gen.pre)

\* C11: in a non-parenthesised import statement, writing the runs of
\* horizontal whitespace (after "import" and "from", before "import", around
\* "as" and ",") with backslash-newline continuations leaves the objects,
\* the typechecking flags and the statement's line number as they are.
ContinuationsChangeNothing ==
  (/\ Returned
   /\ WellFormed(gen)
   /\ Len(gen.body) = 1
   /\ gen.body[1].kind \in { "cont", "tc" })
    => \A ctx \in Contexts, sh \in StmtShapes, gap \in ContinuationGaps :
         gen.body[1] = InContext(ctx, StmtWith(sh, gap))
           => \E plain \in
                 { Observed(ParseImports(
                     gen.pre \o InContext(ctx, StmtWith(sh, PlainGap)).text
                       \o gen.post).v) } :
                /\ Objects(Observed(result)) = Objects(plain)
                /\ Flags(Observed(result)) = Flags(plain)
                /\ Lines(Observed(result)) = Lines(plain)

\* C12: every iteration of the block driver consumes at least one character,
\* so parse_imports terminates with the cursor at the end of the input.
DriverReachesEnd ==
  /\ before < cur.off
  /\ cur.off <= cur.end
  /\ pc = "done" => cur.off = cur.end

\* The four statement parsers.
StatementParsers == 1..4

StatementParser(k, t, s, tc) ==
  CASE k = 1 -> ParseImportStatement(t, s, tc)
    [] k = 2 -> ParseFromImportStatement(t, s, tc)
    [] k = 3 -> ParseMultilineFromImportStatement(t, s, tc)
    [] OTHER -> ParseWildcardFromImportStatement(t, s, tc)

\* The statement of the record alone: its text, at its place.
StatementSpan(r) ==
  [off |-> r.offset, line |-> r.line_number,
   end |-> r.offset + Len(r.line_contents)]

\* C13: each statement parser either matches its statement end-to-end and
\* returns at least one record, or fails, leaving the cursor where it was
\* and contributing no record; a statement that is matched only in part (a
\* parenthesised list with no ")") produces no record.  The statement of a
\* record is the text its parser consumed.
StatementsMatchWhollyOrNotAtAll ==
  /\ pc = "parse" =>
       \A k \in StatementParsers :
         \A r \in { StatementParser(k, input, cur, FALSE) } :
           /\ r.ok => /\ Len(r.v) >= 1
                      /\ r.s.off > cur.off
                      /\ \A i \in 1..Len(r.v) :
                           /\ r.v[i].offset = cur.off
                           /\ r.v[i].line_contents = TakeSplit(input, cur, r.s)
           /\ ~r.ok => r = Fail
  /\ \A i \in 1..Len(result) :
       \E k \in StatementParsers :
         \E r \in { AllConsuming(StatementParser(k, input,
                       StatementSpan(result[i]), result[i].typechecking_only)) } :
           /\ r.ok
           /\ \E j \in 1..Len(r.v) :
                r.v[j].imported_object = result[i].imported_object
  /\ (Returned /\ Len(gen.body) = 1 /\ gen.body[1].kind = "partial")
       => result = << >>

\* A parenthesised list that is not closed has been passed over, with
\* nothing returned for it.
UnclosedListPassedOver ==
  /\ Returned
  /\ result = << >>
  /\ Len(gen.body) = 1
  /\ gen.body[1].kind = "partial"
  /\ \E i \in 1..Len(input) : input[i] = "("

\* The lines of a text: where the line at off stops (at its "\n", or at the
\* end of the text), where the next line starts, and what the line holds
\* before its terminator ("\n" or "\r\n").
LineStop(t, off) == off + RunLenNot(t, off, Len(t), { NL })
NextLine(t, off) ==
  IF LineStop(t, off) < Len(t) THEN LineStop(t, off) + 1 ELSE Len(t)

LineBody(t, off) ==
  IF /\ LineStop(t, off) < Len(t)
     /\ LineStop(t, off) > off
     /\ t[LineStop(t, off)] = CR
  THEN SubSeq(t, off + 1, LineStop(t, off) - 1)
  ELSE SubSeq(t, off + 1, LineStop(t, off))

\* A blank line: spaces and tabs only, and a terminator.
IsBlankLine(t, off) ==
  /\ LineStop(t, off) < Len(t)
  /\ \A i \in 1..Len(LineBody(t, off)) : LineBody(t, off)[i] \in SpaceChars

StartsWith(t, off, w) ==
  off + Len(w) <= Len(t) /\ SubSeq(t, off + 1, off + Len(w)) = w

\* The spaces and tabs the line starts with.
LeadingSpace(t, off) == SubSeq(t, off + 1, off + RunLen(t, off, Len(t), SpaceChars))

RECURSIVE AfterBlankLines(_, _)
AfterBlankLines(t, off) ==
  IF off < Len(t) /\ IsBlankLine(t, off)
  THEN AfterBlankLines(t, NextLine(t, off))
  ELSE off

RECURSIVE AfterBlockLines(_, _, _)
AfterBlockLines(t, off, prefix) ==
  IF off < Len(t) /\ (IsBlankLine(t, off) \/ StartsWith(t, off, prefix))
  THEN AfterBlockLines(t, NextLine(t, off), prefix)
  ELSE off

\* Where the block that starts at off ends, read line by line: the leading
\* blank lines, the first other line, whose leading spaces and tabs are the
\* prefix, and the lines after it that are blank or start with the prefix.
\* -1 when the first other line is not indented.
BlockEndByLines(t, off) ==
  IF LeadingSpace(t, AfterBlankLines(t, off)) = << >> THEN -1
  ELSE AfterBlockLines(t, NextLine(t, AfterBlankLines(t, off)),
                       LeadingSpace(t, AfterBlankLines(t, off)))

SpanAt(t, off) == [off |-> off, line |-> LineAt(t, off), end |-> Len(t)]

\* The text after the header that starts at off, if no inline statement
\* list follows it: where the line after the header's line starts.
BlockFormStart(t, off) ==
  Bind(ParseIfTypecheckingHeader(t, SpanAt(t, off)), LAMBDA hd :
    IF ParseInlineStatements(t, hd.s).ok THEN Fail
    ELSE Bind(ParseLineTail(t, hd.s), LAMBDA tl : LineEnding(t, tl.s)))

\* C14: after a block-form header the block is the leading blank lines, the
\* first non-blank line, whose leading spaces and tabs are the prefix, and
\* every following line that is blank or begins with the prefix; the first
\* later line that is neither ends it, and that line and what follows is
\* parsed with the enclosing flag.
BlockIsThePrefixedLines ==
  /\ \A g \in regions :
       \A b \in { BlockFormStart(input, g.from) } :
         b.ok =>
           /\ g.to = BlockEndByLines(input, b.s.off)
           /\ \A i \in 1..Len(result) :
                /\ (b.s.off <= result[i].offset /\ result[i].offset < g.to)
                     => result[i].typechecking_only
                /\ (g.to <= result[i].offset /\ ~InRegion(result[i].offset))
                     => ~result[i].typechecking_only
  /\ (/\ Returned
      /\ Recognisable(gen)
      /\ \E k \in 1..Len(gen.body) : gen.body[k].kind \in { "shape", "tc" })
       => /\ Flags(Observed(result)) = Flags(Expected(gen))
          /\ Lines(Observed(result)) = Lines(Expected(gen))

\* A block with a blank line and a deeper line in it has ended before a
\* statement that is not indented, after a blank line.
BlockEndedByOutdent ==
  /\ Returned
  /\ \E g \in regions, i, j, k \in 1..Len(result) :
       /\ BlockFormStart(input, g.from).ok
       /\ g.to < Len(input)
       /\ i < j /\ j < k
       /\ result[i].typechecking_only
       /\ result[j].typechecking_only
       /\ result[j].offset < g.to
       /\ ~result[k].typechecking_only
       /\ result[k].offset = g.to
       /\ IsBlankLine(input, g.to - 1)

\* A triple quote starts at offset i of the text.
TripleQuoteAt(t, i) ==
  StartsWith(t, i, TripleDouble) \/ StartsWith(t, i, TripleSingle)

\* The triple quote at offset i is the only one of the text: an opener that
\* nothing closes.
OnlyTripleQuoteAt(t, i) ==
  /\ TripleQuoteAt(t, i)
  /\ \A j \in 0..Len(t) : TripleQuoteAt(t, j) => j = i

\* The text with the three characters at offset i replaced by "=".
WithoutQuotesAt(t, i) ==
  [j \in 1..Len(t) |-> IF i < j /\ j <= i + 3 THEN "=" ELSE t[j]]

\* C15 as stated: with a triple-quote opener that no later triple quote
\* closes, parse_imports returns an error or no record comes from the text
\* after the opener.
OpenLiteralSkippedToEndOrError ==
  pc = "done" =>
    \A i \in 0..Len(input) :
      OnlyTripleQuoteAt(input, i) =>
        \/ outcome = "error"
        \/ \A k \in 1..Len(result) : result[k].offset < i

\* C15: a triple-quote opener that no later triple quote closes opens no
\* literal.  It is other source: the call returns what it returns for the
\* text with other characters in the opener's place, no record starts
\* between the opener and the end of its line, the statements on the lines
\* after it yield their records, and the call fails only where a line holds
\* a "\r" that no "\n" follows.
OpenLiteralIsOtherSource ==
  pc = "done" =>
    \A i \in 0..Len(input) :
      OnlyTripleQuoteAt(input, i) =>
        /\ NoCR(input) => outcome = "ok"
        /\ \A k \in 1..Len(result) :
             ~(i <= result[k].offset /\ result[k].offset < LineStop(input, i))
        /\ \A plain \in { ParseImports(WithoutQuotesAt(input, i)) } :
             /\ plain.ok <=> outcome = "ok"
             /\ plain.ok => Observed(plain.v) = Observed(result)
        /\ (/\ outcome = "ok"
            /\ Len(gen.body) = 1
            /\ gen.body[1].kind = "open")
             => /\ Objects(Observed(result)) = Objects(Expected(gen))
                /\ Flags(Observed(result)) = Flags(Expected(gen))
                /\ Lines(Observed(result)) = Lines(Expected(gen))

\* A record of a statement written after an opener that nothing closes.
RecordAfterOpenLiteral ==
  /\ Returned
  /\ \E i \in 0..Len(input) :
       /\ OnlyTripleQuoteAt(input, i)
       /\ \E k \in 1..Len(result) : result[k].offset > i

\* C16: where the header of a guard is matched and neither an inline
\* statement list nor a comment, a newline and an indented block follows,
\* parse_if_typechecking consumes nothing and yields no record, the call does
\* not fail, the header's line is skipped as other source, and the text after
\* it is parsed with the enclosing flag.
BareGuardIsOtherSource ==
  /\ pc = "parse" =>
       \A hd \in { ParseIfTypecheckingHeader(input, cur) } :
         (hd.ok /\ ~ParseIfTypechecking(input, cur).ok) =>
           \A r \in { BlockAlt(input, cur, FALSE) } :
             /\ r.ok
             /\ r.alt = 7
             /\ r.v = << >>
             /\ r.s.off >= hd.s.off
             /\ r.s.off = LineStop(input, cur.off)
                  - (IF LineEnding(input, r.s).ok /\ input[r.s.off + 1] = CR
                     THEN 1 ELSE 0)
  /\ (/\ pc = "done"
      /\ NoCR(input)
      /\ \E k \in 1..Len(gen.body) :
           gen.body[k] \in BareGuardChunks \cup { BareGuardInBlock })
       => /\ outcome = "ok"
          /\ \A k \in 1..Len(gen.body), i \in 1..Len(result) :
               (/\ gen.body[k] \in BareGuardChunks
                /\ ChunkStart(gen, k) <= result[i].offset
                /\ result[i].offset < ChunkStart(gen, k + 1))
                 => /\ ~result[i].typechecking_only
                    /\ result[i].line_number
                         > LineAt(input, ChunkStart(gen, k))
          /\ Recognisable(gen) =>
               /\ Objects(Observed(result)) = Objects(Expected(gen))
               /\ Flags(Observed(result)) = Flags(Expected(gen))
               /\ Lines(Observed(result)) = Lines(Expected(gen))

====
